---- MODULE Spec2Model ----
(***************************************************************************)
(* Crux voice assistant: command matching (commands.py), the Assistant's *)
(* utterance routing (assistant.py), and the threads of the Assistant,    *)
(* of its listening loop (speech.py) and of speech output (tts.py).       *)
(*                                                                         *)
(* Text is a sequence of one-character strings, so that lower(), strip(), *)
(* startswith(), `in` and replace() are computed character by character,  *)
(* as Python computes them.  A fixed message of the program is a single   *)
(* element holding the whole literal ("Opening "), so a formatted reply   *)
(* f"Opening {app}." is <<"Opening ">> \o app \o <<".">>.                 *)
(***************************************************************************)
EXTENDS Naturals, Sequences, FiniteSets, TLC

VARIABLES
    allow_shutdown,   \* cfg["allow_shutdown"]
    AudioUtilities,   \* commands.AudioUtilities is not None (pycaw imported)
    sbc,              \* commands.sbc is not None (screen_brightness_control imported)
    gpt_cfg,          \* Assistant.gpt_cfg: [enabled, api_key]
    gpt_enabled,      \* Assistant.gpt_enabled
    jsonl_path,       \* Assistant.jsonl_path is set
    pc,               \* "idle": no call in progress; "done": a call has just completed
    entry,            \* which entry point the completed call came through
    text,             \* the text given to the entry point
    user_text_calls,  \* the arguments of the calls of handle_user_text, in order
    command_calls,    \* the arguments of the calls of handle_command, in order
    result,           \* what handle_command returned (NoResult if it was not called)
    response,         \* what route_command returned
    raised,           \* an exception left the entry point
    effects,          \* external actions of the call, in order
    events,           \* events passed to event_cb during the call, in order
    warnings,         \* what the call gave to logger.warning / logger.exception
    gpt_outcome,      \* what the hosted call did ("none": it was not made)
    audit,            \* lines appended to the JSONL audit log during the call
    calls,            \* number of calls so far
    prompted,         \* history: an earlier call answered with the confirmation prompt
    listening,        \* Assistant.listening
    lock,             \* the thread holding Assistant.lock
    running,          \* SpeechEngine.running
    thread,           \* SpeechEngine.thread
    spawned,          \* number of listening threads created so far
    at,               \* where each thread is in the code
    op,               \* the Assistant method each calling thread is in
    ops,              \* number of calls made from outside so far
    mode,             \* TTSEngine.mode
    engine,           \* TTSEngine.engine is not None
    tts_host,         \* what TTSEngine.__init__ found: [mode, pyttsx3, init_ok]
    engine_lock,      \* the thread holding TTSEngine._engine_lock
    play_lock,        \* the thread holding TTSEngine._play_lock
    players,          \* playback threads started and not yet holding _play_lock
    cache,            \* keys of the files in tts_cache_dir
    hosted,           \* keys of the completed hosted syntheses, in order
    saying,           \* the text each thread gave to its current or last say
    attempts,         \* engine.say attempts of each thread's current say
    fell_back,        \* history: the say completed last spoke online after a failed retry
    after_fallback    \* history: fell_back as it was when the thread entered say

call_vars == <<allow_shutdown, AudioUtilities, sbc, gpt_cfg, gpt_enabled, jsonl_path,
               pc, entry, text, user_text_calls, command_calls, result, response,
               raised, effects, events, warnings, gpt_outcome, audit, calls, prompted>>
stt_vars == <<listening, lock, running, thread, spawned>>
tts_vars == <<mode, engine, tts_host, engine_lock, play_lock, players, cache, hosted>>
say_vars == <<saying, attempts, fell_back, after_fallback>>
thread_vars == <<stt_vars, tts_vars, say_vars, at, op, ops>>

vars == <<call_vars, thread_vars>>

\* Number of utterances handled in one behaviour.
MaxCalls == 2

----------------------------------------------------------------------------
(* Python str operations *)

UpperCase == <<"A","B","C","D","E","F","G","H","I","J","K","L","M",
               "N","O","P","Q","R","S","T","U","V","W","X","Y","Z">>
LowerCase == <<"a","b","c","d","e","f","g","h","i","j","k","l","m",
               "n","o","p","q","r","s","t","u","v","w","x","y","z">>

\* The lower-case letter of each upper-case letter.
ToLower == [c \in {UpperCase[i] : i \in DOMAIN UpperCase} |->
               LowerCase[CHOOSE i \in DOMAIN UpperCase : UpperCase[i] = c]]

LowerChar(c) == IF c \in DOMAIN ToLower THEN ToLower[c] ELSE c

\* str.lower()
Lower(s) == [i \in DOMAIN s |-> LowerChar(s[i])]

\* str.startswith(p)
StartsWith(s, p) == Len(s) >= Len(p) /\ SubSeq(s, 1, Len(p)) = p

\* p in s
Contains(s, p) ==
    \E i \in 1..(Len(s) + 1) :
        i + Len(p) - 1 <= Len(s) /\ SubSeq(s, i, i + Len(p) - 1) = p

\* str.replace(old, ""): every non-overlapping occurrence, left to right
RECURSIVE Replace(_, _)
Replace(s, old) ==
    IF old = <<>> \/ Len(s) < Len(old) THEN s
    ELSE IF StartsWith(s, old) THEN Replace(SubSeq(s, Len(old) + 1, Len(s)), old)
    ELSE <<Head(s)>> \o Replace(Tail(s), old)

IsSpace(c) == c = " "

RECURSIVE LStrip(_)
LStrip(s) == IF s # <<>> /\ IsSpace(Head(s)) THEN LStrip(Tail(s)) ELSE s

RECURSIVE RStrip(_)
RStrip(s) ==
    IF s # <<>> /\ IsSpace(s[Len(s)]) THEN RStrip(SubSeq(s, 1, Len(s) - 1)) ELSE s

\* str.strip()
Strip(s) == RStrip(LStrip(s))

----------------------------------------------------------------------------
(* String literals of commands.py and assistant.py *)

K_open       == <<"o","p","e","n"," ">>
K_search     == <<"s","e","a","r","c","h"," ">>
K_volume     == <<"v","o","l","u","m","e">>
K_brightness == <<"b","r","i","g","h","t","n","e","s","s">>
K_up         == <<"u","p">>
K_down       == <<"d","o","w","n">>
K_shutdown   == <<"s","h","u","t","d","o","w","n">>
K_restart    == <<"r","e","s","t","a","r","t">>
K_confirm    == <<"c","o","n","f","i","r","m">>
K_play_music == <<"p","l","a","y"," ","m","u","s","i","c">>
K_crux_write == <<"c","r","u","x"," ","w","r","i","t","e">>
K_bubble_sort == <<"b","u","b","b","l","e"," ","s","o","r","t">>
K_crux       == <<"c","r","u","x">>

MsgOpening(app)   == <<"Opening ">> \o app \o <<".">>
MsgNotFound(app)  == <<"App ">> \o app \o <<" not found in config.">>
MsgSearching(q)   == <<"Searching the web for ">> \o q \o <<".">>
MsgVolumeUp       == <<"Volume increased.">>
MsgVolumeDown     == <<"Volume decreased.">>
MsgBrightUp       == <<"Brightness increased.">>
MsgBrightDown     == <<"Brightness decreased.">>
MsgBrightError    == <<"Brightness control error: ", "{e}">>
MsgDisabled       == <<"Shutdown and restart are disabled in config.">>
MsgConfirmPrompt  == <<"Say 'confirm shutdown' or 'confirm restart' to proceed.">>
MsgShuttingDown   == <<"Shutting down system...">>
MsgRestarting     == <<"Restarting system...">>
MsgPlaying        == <<"Playing music.">>
MsgNoMusic        == <<"Music path not configured.">>
MsgBubbleSortCode == <<"def bubble_sort(arr): ...">>
MsgNotRecognized  == <<"Command not recognized.">>

\* cfg["apps"]: the keys of the Command Table
K_notepad == <<"n","o","t","e","p","a","d">>
apps == {K_notepad}

----------------------------------------------------------------------------
(* commands.handle_command *)

\* The value a rule yields when it does not return: control falls to the next rule.
Fall == [matched |-> FALSE, raised |-> FALSE, handled |-> FALSE,
         resp |-> <<>>, effects |-> <<>>]

Return(handled, resp, effs) ==
    [matched |-> TRUE, raised |-> FALSE, handled |-> handled,
     resp |-> resp, effects |-> effs]

\* An exception leaves handle_command: nothing is returned.
Raise(effs) ==
    [matched |-> TRUE, raised |-> TRUE, handled |-> FALSE,
     resp |-> <<>>, effects |-> effs]

Act(a, arg) == [act |-> a, arg |-> arg]

\* if command.startswith("open "): ...
OpenRule(cmd, cfg) ==
    IF StartsWith(cmd, K_open)
    THEN LET app == Replace(cmd, K_open) IN
         IF app \in cfg.apps
         THEN Return(TRUE, MsgOpening(app), <<Act("Popen", app)>>)
         ELSE Return(TRUE, MsgNotFound(app), <<>>)
    ELSE Fall

\* if command.startswith("search "): ...
SearchRule(cmd) ==
    IF StartsWith(cmd, K_search)
    THEN LET query == Replace(cmd, K_search) IN
         Return(TRUE, MsgSearching(query), <<Act("webbrowser.open", query)>>)
    ELSE Fall

\* if "volume" in command and AudioUtilities: ...
\* The speaker endpoint is opened before "up"/"down" is looked at, outside any try.
VolumeRule(cmd, host) ==
    IF Contains(cmd, K_volume) /\ AudioUtilities
    THEN IF host.backend_error THEN Raise(<<>>)
         ELSE IF Contains(cmd, K_up) THEN Return(TRUE, MsgVolumeUp, <<Act("volume+", <<>>)>>)
         ELSE IF Contains(cmd, K_down) THEN Return(TRUE, MsgVolumeDown, <<Act("volume-", <<>>)>>)
         ELSE Fall
    ELSE Fall

\* if "brightness" in command and sbc: try: ... except Exception as e: ...
BrightnessRule(cmd, host) ==
    IF Contains(cmd, K_brightness) /\ sbc
    THEN IF Contains(cmd, K_up)
         THEN IF host.backend_error THEN Return(TRUE, MsgBrightError, <<>>)
              ELSE Return(TRUE, MsgBrightUp, <<Act("brightness+", <<>>)>>)
         ELSE IF Contains(cmd, K_down)
         THEN IF host.backend_error THEN Return(TRUE, MsgBrightError, <<>>)
              ELSE Return(TRUE, MsgBrightDown, <<Act("brightness-", <<>>)>>)
         ELSE Fall
    ELSE Fall

\* The rule without the "confirm" guard.
ShutdownRule_noconfirm(cmd, cfg) ==
    IF Contains(cmd, K_shutdown) \/ Contains(cmd, K_restart)
    THEN IF ~cfg.allow_shutdown THEN Return(TRUE, MsgDisabled, <<>>)
         ELSE IF Contains(cmd, K_shutdown)
         THEN Return(TRUE, MsgShuttingDown, <<Act("os.system", <<"shutdown /s /t 1">>)>>)
         ELSE Return(TRUE, MsgRestarting, <<Act("os.system", <<"shutdown /r /t 1">>)>>)
    ELSE Fall

\* The rule with the "confirm" test made before the allow_shutdown test.
ShutdownRule_confirmfirst(cmd, cfg) ==
    IF Contains(cmd, K_shutdown) \/ Contains(cmd, K_restart)
    THEN IF ~Contains(cmd, K_confirm) THEN Return(TRUE, MsgConfirmPrompt, <<>>)
         ELSE IF ~cfg.allow_shutdown THEN Return(TRUE, MsgDisabled, <<>>)
         ELSE IF Contains(cmd, K_shutdown)
         THEN Return(TRUE, MsgShuttingDown, <<Act("os.system", <<"shutdown /s /t 1">>)>>)
         ELSE Return(TRUE, MsgRestarting, <<Act("os.system", <<"shutdown /r /t 1">>)>>)
    ELSE Fall

\* The rule with "restart" tested before "shutdown".
ShutdownRule_restartfirst(cmd, cfg) ==
    IF Contains(cmd, K_shutdown) \/ Contains(cmd, K_restart)
    THEN IF ~cfg.allow_shutdown THEN Return(TRUE, MsgDisabled, <<>>)
         ELSE IF ~Contains(cmd, K_confirm) THEN Return(TRUE, MsgConfirmPrompt, <<>>)
         ELSE IF Contains(cmd, K_restart)
         THEN Return(TRUE, MsgRestarting, <<Act("os.system", <<"shutdown /r /t 1">>)>>)
         ELSE Return(TRUE, MsgShuttingDown, <<Act("os.system", <<"shutdown /s /t 1">>)>>)
    ELSE Fall

\* if "shutdown" in command or "restart" in command: ...
ShutdownRule(cmd, cfg) ==
    IF Contains(cmd, K_shutdown) \/ Contains(cmd, K_restart)
    THEN IF ~cfg.allow_shutdown THEN Return(TRUE, MsgDisabled, <<>>)
         ELSE IF ~Contains(cmd, K_confirm) THEN Return(TRUE, MsgConfirmPrompt, <<>>)
         ELSE IF Contains(cmd, K_shutdown)
         THEN Return(TRUE, MsgShuttingDown, <<Act("os.system", <<"shutdown /s /t 1">>)>>)
         ELSE Return(TRUE, MsgRestarting, <<Act("os.system", <<"shutdown /r /t 1">>)>>)
    ELSE Fall

\* if "play music" in command: ...   (os.path.exists("") is False)
MusicRule(cmd, host) ==
    IF Contains(cmd, K_play_music)
    THEN IF host.music_exists
         THEN Return(TRUE, MsgPlaying, <<Act("os.startfile", <<>>)>>)
         ELSE Return(TRUE, MsgNoMusic, <<>>)
    ELSE Fall

\* if command.startswith("crux write"): if "bubble sort" in command: ...
CodeRule(cmd) ==
    IF StartsWith(cmd, K_crux_write) /\ Contains(cmd, K_bubble_sort)
    THEN Return(TRUE, MsgBubbleSortCode, <<>>)
    ELSE Fall

\* A rule that returned ends the function; a rule that fell through lets the
\* rest of the function run.
OrElse(r, rest) == IF r.matched THEN r ELSE rest

\* handle_command with the shutdown/restart rule tried first.
handle_command_shutdownfirst(command0, cfg, host) ==
    LET cmd == Lower(command0) IN
    OrElse(ShutdownRule(cmd, cfg),
    OrElse(OpenRule(cmd, cfg),
    OrElse(SearchRule(cmd),
    OrElse(VolumeRule(cmd, host),
    OrElse(BrightnessRule(cmd, host),
    OrElse(MusicRule(cmd, host),
    OrElse(CodeRule(cmd),
           Return(FALSE, MsgNotRecognized, <<>>))))))))

\* handle_command(command, cfg): command = command.lower(), then the rules in order.
handle_command(command0, cfg, host) ==
    LET cmd == Lower(command0) IN
    OrElse(OpenRule(cmd, cfg),
    OrElse(SearchRule(cmd),
    OrElse(VolumeRule(cmd, host),
    OrElse(BrightnessRule(cmd, host),
    OrElse(ShutdownRule(cmd, cfg),
    OrElse(MusicRule(cmd, host),
    OrElse(CodeRule(cmd),
           Return(FALSE, MsgNotRecognized, <<>>))))))))

----------------------------------------------------------------------------
(* assistant.Assistant *)

\* (the source writes the apostrophes of the two fixed replies typographically)
MsgHeardWake(w)   == <<"Heard wake word: ">> \o w
MsgGptApology     == <<"Sorry, I couldn't reach GPT right now.">>
MsgDontUnderstand == <<"I don't understand. Please try again.">>
MsgGptAnswer      == <<"{answer}">>

\* cfg["app"]["wake_word"], default "crux"
wake_word == K_crux

\* The cfg mapping handed to handle_command.
Cfg == [allow_shutdown |-> allow_shutdown, apps |-> apps]

NoResult == Fall

\* __init__: gpt_enabled is set only if gpt.enabled and an API key is found
Assistant_init(g) == IF g.enabled THEN (IF g.api_key THEN TRUE ELSE FALSE) ELSE FALSE

LogEvent(message) == [type |-> "log", role |-> "", text |-> message]
TranscriptEvent(role, t) == [type |-> "transcript", role |-> role, text |-> t]

MsgGptFailed   == <<"GPT query failed: ">>
MsgJsonlFailed == <<"Failed to log JSONL: ">>

\* log_jsonl(role, text): nothing without a path; otherwise one line is
\* appended, or, if open() or write() raises, a warning is logged instead.
log_jsonl(role, t, ok) ==
    IF ~jsonl_path THEN [audit |-> <<>>, warnings |-> <<>>]
    ELSE IF ok THEN [audit |-> <<[role |-> role, text |-> t]>>, warnings |-> <<>>]
    ELSE [audit |-> <<>>, warnings |-> <<MsgJsonlFailed>>]

\* query_gpt(text): the hosted call raises, or answers; the answer is stripped
\* and may be empty.
query_gpt(gpt) ==
    CASE gpt = "error"  -> [raised |-> TRUE,  answer |-> <<>>]
      [] gpt = "empty"  -> [raised |-> FALSE, answer |-> <<>>]
      [] gpt = "answer" -> [raised |-> FALSE, answer |-> MsgGptAnswer]

\* route_command answering an unhandled text with handle_command's own reply.
route_command_notrecognized(t, host, gpt) ==
    LET r == handle_command(t, Cfg, host) IN
    IF r.raised
    THEN [raised |-> TRUE, response |-> <<>>, result |-> r, effects |-> r.effects,
          warnings |-> <<>>, gpt |-> "none"]
    ELSE [raised |-> FALSE, response |-> r.resp, result |-> r, effects |-> r.effects,
          warnings |-> <<>>, gpt |-> "none"]

\* route_command without the try/except around query_gpt.
route_command_nocatch(t, host, gpt) ==
    LET r == handle_command(t, Cfg, host) IN
    IF r.raised
    THEN [raised |-> TRUE, response |-> <<>>, result |-> r, effects |-> r.effects,
          warnings |-> <<>>, gpt |-> "none"]
    ELSE IF r.handled
    THEN [raised |-> FALSE, response |-> r.resp, result |-> r, effects |-> r.effects,
          warnings |-> <<>>, gpt |-> "none"]
    ELSE IF gpt_enabled
    THEN LET q == query_gpt(gpt) IN
         [raised |-> q.raised,
          response |-> q.answer,
          result |-> r,
          effects |-> r.effects \o <<Act("query_gpt", t)>>,
          warnings |-> <<>>, gpt |-> gpt]
    ELSE [raised |-> FALSE, response |-> MsgDontUnderstand, result |-> r,
          effects |-> r.effects, warnings |-> <<>>, gpt |-> "none"]

\* route_command(text)
route_command(t, host, gpt) ==
    LET r == handle_command(t, Cfg, host) IN
    IF r.raised
    THEN [raised |-> TRUE, response |-> <<>>, result |-> r, effects |-> r.effects,
          warnings |-> <<>>, gpt |-> "none"]
    ELSE IF r.handled
    THEN [raised |-> FALSE, response |-> r.resp, result |-> r, effects |-> r.effects,
          warnings |-> <<>>, gpt |-> "none"]
    ELSE IF gpt_enabled
    THEN LET q == query_gpt(gpt) IN
         [raised |-> FALSE,
          response |-> IF q.raised THEN MsgGptApology ELSE q.answer,
          result |-> r,
          effects |-> r.effects \o <<Act("query_gpt", t)>>,
          warnings |-> IF q.raised THEN <<MsgGptFailed>> ELSE <<>>,
          gpt |-> gpt]
    ELSE [raised |-> FALSE, response |-> MsgDontUnderstand, result |-> r,
          effects |-> r.effects, warnings |-> <<>>, gpt |-> "none"]

\* What one call of an entry point did.
Outcome(ev, au, eff, utc, cc, res, resp, exc, warn, gpt) ==
    [events |-> ev, audit |-> au, effects |-> eff, user_text_calls |-> utc,
     command_calls |-> cc, result |-> res, response |-> resp, raised |-> exc,
     warnings |-> warn, gpt_outcome |-> gpt]

\* handle_user_text emitting the user's transcript twice.
handle_user_text_twice(t, host, gpt, io) ==
    LET rc == route_command(t, host, gpt)
        ev == <<TranscriptEvent("user", t), TranscriptEvent("user", t)>>
        u  == log_jsonl("user", t, io.user)
        a  == log_jsonl("assistant", rc.response, io.assistant)
    IN  IF rc.raised
        THEN Outcome(ev, u.audit, rc.effects, <<t>>, <<t>>, rc.result, <<>>, TRUE,
                     u.warnings \o rc.warnings, rc.gpt)
        ELSE IF rc.response # <<>>
        THEN Outcome(ev \o <<TranscriptEvent("assistant", rc.response)>>,
                     u.audit \o a.audit,
                     rc.effects \o <<Act("say", rc.response)>>,
                     <<t>>, <<t>>, rc.result, rc.response, FALSE,
                     u.warnings \o rc.warnings \o a.warnings, rc.gpt)
        ELSE Outcome(ev, u.audit, rc.effects, <<t>>, <<t>>, rc.result, rc.response,
                     FALSE, u.warnings \o rc.warnings, rc.gpt)

\* handle_user_text(text); io says whether each append to the audit log succeeds
handle_user_text(t, host, gpt, io) ==
    LET rc == route_command(t, host, gpt)
        ev == <<TranscriptEvent("user", t)>>
        u  == log_jsonl("user", t, io.user)
        a  == log_jsonl("assistant", rc.response, io.assistant)
    IN  IF rc.raised
        THEN Outcome(ev, u.audit, rc.effects, <<t>>, <<t>>, rc.result, <<>>, TRUE,
                     u.warnings \o rc.warnings, rc.gpt)
        ELSE IF rc.response # <<>>
        THEN Outcome(ev \o <<TranscriptEvent("assistant", rc.response)>>,
                     u.audit \o a.audit,
                     rc.effects \o <<Act("say", rc.response)>>,
                     <<t>>, <<t>>, rc.result, rc.response, FALSE,
                     u.warnings \o rc.warnings \o a.warnings, rc.gpt)
        ELSE Outcome(ev, u.audit, rc.effects, <<t>>, <<t>>, rc.result, rc.response,
                     FALSE, u.warnings \o rc.warnings, rc.gpt)

Nothing(ev) == Outcome(ev, <<>>, <<>>, <<>>, <<>>, NoResult, <<>>, FALSE, <<>>, "none")

\* Prepend the events emitted before handle_user_text was entered.
After(ev, o) == [o EXCEPT !.events = ev \o @]

\* on_stt_result without the lower-casing.
on_stt_result_nolower(t, host, gpt, io) ==
    IF t = <<>> THEN Nothing(<<>>)
    ELSE LET text_lower == Strip(t)
             w == Lower(wake_word)
         IN  IF Contains(text_lower, w)
             THEN LET stripped == Strip(Replace(text_lower, w)) IN
                  IF stripped = <<>> THEN Nothing(<<LogEvent(MsgHeardWake(w))>>)
                  ELSE After(<<LogEvent(MsgHeardWake(w))>>,
                             handle_user_text(stripped, host, gpt, io))
             ELSE handle_user_text(text_lower, host, gpt, io)

\* on_stt_result without the return on an empty remainder.
on_stt_result_noreturn(t, host, gpt, io) ==
    IF t = <<>> THEN Nothing(<<>>)
    ELSE LET text_lower == Strip(Lower(t))
             w == Lower(wake_word)
         IN  IF Contains(text_lower, w)
             THEN After(<<LogEvent(MsgHeardWake(w))>>,
                        handle_user_text(Strip(Replace(text_lower, w)), host, gpt, io))
             ELSE handle_user_text(text_lower, host, gpt, io)

\* on_stt_result(text)
on_stt_result(t, host, gpt, io) ==
    IF t = <<>> THEN Nothing(<<>>)
    ELSE LET text_lower == Strip(Lower(t))
             w == Lower(wake_word)
         IN  IF Contains(text_lower, w)
             THEN LET stripped == Strip(Replace(text_lower, w)) IN
                  IF stripped = <<>> THEN Nothing(<<LogEvent(MsgHeardWake(w))>>)
                  ELSE After(<<LogEvent(MsgHeardWake(w))>>,
                             handle_user_text(stripped, host, gpt, io))
             ELSE handle_user_text(text_lower, host, gpt, io)

----------------------------------------------------------------------------
(* Utterances *)

SP          == <<" ">>
K_crux_sp   == <<"c","r","u","x"," ">>
U_Crux_sp   == <<"C","r","u","x"," ">>
U_Open_sp   == <<"O","p","e","n"," ">>
U_Hello     == <<"H","e","l","l","o">>

\* Every text made of at most three fragments of V.
Texts3(V) == {a \o b \o c : a \in V \cup {<<>>}, b \in V \cup {<<>>}, c \in V \cup {<<>>}}

CmdVocab == {SP, K_open, U_Open_sp, K_search, K_notepad, K_volume, K_brightness, K_up,
             K_down, K_shutdown, K_restart, K_confirm, K_play_music, K_crux_write,
             K_bubble_sort}

SttVocab == {SP, K_crux, K_crux_sp, U_Crux_sp, K_open, K_notepad, U_Hello,
             K_crux_write, K_bubble_sort}

CmdTexts == Texts3(CmdVocab)
SttTexts == Texts3(SttVocab)

\* What the host does during one call: os.path.exists(music_path), and whether
\* the volume/brightness backend raises.
Hosts == [music_exists : BOOLEAN, backend_error : BOOLEAN]

\* A host with no music path, where no backend is there to fail.
QuietHost == [music_exists |-> FALSE, backend_error |-> FALSE]

GptOutcomes == {"error", "empty", "answer"}

\* Whether the append of the user's line and of the assistant's line succeeds.
IoOutcomes == [user : BOOLEAN, assistant : BOOLEAN]

----------------------------------------------------------------------------
(* Threads, speech.SpeechEngine and tts.TTSEngine *)

\* Listening threads that may be started in one behaviour.
MaxThreads == 2
\* Calls made from outside in one behaviour.
MaxOps == 3
\* Playback threads that may be waiting for _play_lock at once.
MaxPlayers == 2

\* Threads are named <<kind, n>>.  The window's thread and one more thread
\* call the public methods; the listening threads are numbered as they are
\* created; the playback threads, which do nothing but play, are one name.
None    == <<"none", 0>>
Gui     == <<"gui", 0>>
Other   == <<"other", 0>>
Player  == <<"player", 0>>
Loop(n) == <<"loop", n>>
Callers == {Gui, Other}
Loops   == {Loop(n) : n \in 1..MaxThreads}
Threads == Callers \cup Loops

\* Texts given to say: empty, blank, and two replies of the Assistant.
SayTexts == {<<>>, SP, MsgDontUnderstand, MsgGptApology}

\* gtts_lang_code(lang_pref) with the default lang_map
lang_pref == "en"
gtts_lang_code(l) == IF l \in {"en", "ta"} THEN l ELSE "en"

\* The cache file name f"{lang_code}_{abs(hash(text))}.mp3": a function of the
\* language code and of the text; the texts here have distinct hashes.
Key(t) == <<gtts_lang_code(lang_pref), t>>

\* TTSEngine.__init__ leaving the configured mode when pyttsx3 fails to start.
TTSEngine_init_nodowngrade(h) ==
    IF h.mode = "offline" /\ h.pyttsx3
    THEN [mode |-> "offline", engine |-> h.init_ok]
    ELSE IF h.mode = "offline" /\ ~h.pyttsx3
    THEN [mode |-> "online", engine |-> FALSE]
    ELSE [mode |-> h.mode, engine |-> FALSE]

\* TTSEngine.__init__: mode as configured, the engine created only for
\* "offline" with pyttsx3 installed; "online" if it is missing or init() raises.
TTSEngine_init(h) ==
    IF h.mode = "offline" /\ h.pyttsx3
    THEN (IF h.init_ok THEN [mode |-> "offline", engine |-> TRUE]
                       ELSE [mode |-> "online", engine |-> FALSE])
    ELSE IF h.mode = "offline" /\ ~h.pyttsx3
    THEN [mode |-> "online", engine |-> FALSE]
    ELSE [mode |-> h.mode, engine |-> FALSE]

TtsHosts == [mode : {"offline", "online"}, pyttsx3 : BOOLEAN, init_ok : BOOLEAN]

\* SpeechEngine.__init__ and the Assistant's own flag and lock
InitStt ==
    /\ listening = FALSE
    /\ lock = None
    /\ running = FALSE
    /\ thread = None
    /\ spawned = 0

InitTts(h) ==
    /\ tts_host = h
    /\ mode = TTSEngine_init(h).mode
    /\ engine = TTSEngine_init(h).engine
    /\ engine_lock = None
    /\ play_lock = None
    /\ players = 0
    /\ cache = {}
    /\ hosted = <<>>

InitThreads ==
    /\ at = [t \in Threads |-> IF t \in Callers THEN "idle" ELSE "unborn"]
    /\ op = [c \in Callers |-> "none"]
    /\ ops = 0
    /\ saying = [t \in Threads |-> <<>>]
    /\ attempts = [t \in Threads |-> 0]
    /\ fell_back = FALSE
    /\ after_fallback = [t \in Threads |-> FALSE]

----------------------------------------------------------------------------
(* State machine *)

InitCall ==
    /\ pc = "idle"
    /\ entry = "none"
    /\ text = <<>>
    /\ user_text_calls = <<>>
    /\ command_calls = <<>>
    /\ result = NoResult
    /\ response = <<>>
    /\ raised = FALSE
    /\ effects = <<>>
    /\ events = <<>>
    /\ audit = <<>>
    /\ warnings = <<>>
    /\ gpt_outcome = "none"
    /\ calls = 0
    /\ prompted = FALSE

\* The commands module alone, driven as test_commands.py drives it.
InitCommands ==
    /\ allow_shutdown \in BOOLEAN
    /\ AudioUtilities \in BOOLEAN
    /\ sbc \in BOOLEAN
    /\ gpt_cfg = [enabled |-> FALSE, api_key |-> FALSE]
    /\ gpt_enabled = Assistant_init(gpt_cfg)
    /\ jsonl_path = FALSE
    /\ InitCall
    /\ InitStt /\ InitThreads /\ InitTts([mode |-> "online", pyttsx3 |-> FALSE, init_ok |-> FALSE])

\* An Assistant after construction, on a host without volume or brightness
\* control and with shutdown left disabled.
InitAssistant ==
    /\ allow_shutdown = FALSE
    /\ AudioUtilities = FALSE
    /\ sbc = FALSE
    /\ gpt_cfg \in [enabled : BOOLEAN, api_key : BOOLEAN]
    /\ gpt_enabled = Assistant_init(gpt_cfg)
    /\ jsonl_path \in BOOLEAN
    /\ InitCall
    /\ InitStt /\ InitThreads /\ InitTts([mode |-> "online", pyttsx3 |-> FALSE, init_ok |-> FALSE])

\* No call is in progress and another one may start.
Idle == pc = "idle" /\ calls < MaxCalls

Begin(e, t) ==
    /\ pc' = "done"
    /\ entry' = e
    /\ text' = t
    /\ calls' = calls + 1
    /\ UNCHANGED <<allow_shutdown, AudioUtilities, sbc, gpt_cfg, gpt_enabled,
                   jsonl_path, prompted, thread_vars>>

Record(o) ==
    /\ user_text_calls' = o.user_text_calls
    /\ command_calls' = o.command_calls
    /\ result' = o.result
    /\ response' = o.response
    /\ raised' = o.raised
    /\ effects' = o.effects
    /\ events' = o.events
    /\ audit' = o.audit
    /\ warnings' = o.warnings
    /\ gpt_outcome' = o.gpt_outcome

\* handled, resp = commands.handle_command(t, cfg)
CallHandleCommand ==
    /\ Idle
    /\ \E t \in CmdTexts, host \in Hosts :
        /\ Begin("direct", t)
        /\ \E r \in {handle_command(t, Cfg, host)} :
               Record(Outcome(<<>>, <<>>, r.effects, <<>>, <<t>>, r,
                              IF r.raised THEN <<>> ELSE r.resp, r.raised,
                              <<>>, "none"))

\* The window submits typed text: stripped, and only if not empty.
SubmitText ==
    /\ Idle
    /\ \E t \in SttTexts, gpt \in GptOutcomes, io \in IoOutcomes :
        /\ t # <<>> /\ t = Strip(t)
        /\ Begin("typed", t)
        /\ \E o \in {handle_user_text(t, QuietHost, gpt, io)} : Record(o)

\* The listening loop hands a recognized, non-empty text to the callback.
Heard ==
    /\ Idle
    /\ \E t \in SttTexts, gpt \in GptOutcomes, io \in IoOutcomes :
        /\ t # <<>>
        /\ Begin("spoken", t)
        /\ \E o \in {on_stt_result(t, QuietHost, gpt, io)} : Record(o)

\* The call is over; what it left behind is the history.
Finish ==
    /\ pc = "done"
    /\ pc' = "idle"
    /\ prompted' = (prompted \/ response = MsgConfirmPrompt)
    /\ entry' = "none"
    /\ text' = <<>>
    /\ Record(Nothing(<<>>))
    /\ UNCHANGED <<allow_shutdown, AudioUtilities, sbc, gpt_cfg, gpt_enabled,
                   jsonl_path, calls, thread_vars>>

NextCommands == CallHandleCommand \/ Finish
NextAssistant == SubmitText \/ Heard \/ Finish

SpecCommands == InitCommands /\ [][NextCommands]_vars
SpecAssistant == InitAssistant /\ [][NextAssistant]_vars

----------------------------------------------------------------------------
(* Properties of handle_command, checked under SpecCommands *)

\* A call of handle_command has completed; Cmd is its text as the rules see it.
Called == pc = "done" /\ command_calls # <<>>
Cmd == Lower(command_calls[1])

OsAction(effs) == \E i \in DOMAIN effs : effs[i].act = "os.system"
OnlyActs(effs, acts) == \A i \in DOMAIN effs : effs[i].act \in acts

NamesAction(c) == Contains(c, K_shutdown) \/ Contains(c, K_restart)

\* The text gets as far as the shutdown/restart rule: it names the action and
\* no earlier rule returned or raised.
ReachesShutdownRule ==
    /\ Called /\ ~raised
    /\ NamesAction(Cmd)
    /\ ~StartsWith(Cmd, K_open) /\ ~StartsWith(Cmd, K_search)
    /\ ~(Contains(Cmd, K_volume) /\ AudioUtilities
            /\ (Contains(Cmd, K_up) \/ Contains(Cmd, K_down)))
    /\ ~(Contains(Cmd, K_brightness) /\ sbc
            /\ (Contains(Cmd, K_up) \/ Contains(Cmd, K_down)))

\* C1: the OS shutdown/restart is performed only while handling an utterance
\* that itself contains the action word and "confirm", with allow_shutdown
\* true; an earlier confirmation prompt is not remembered, so a later
\* utterance "confirm" alone performs no OS action.
C1_NoRememberedConfirmation ==
    Called =>
        /\ OsAction(effects) =>
              NamesAction(Cmd) /\ Contains(Cmd, K_confirm) /\ allow_shutdown
        /\ (prompted /\ Cmd = K_confirm) => ~OsAction(effects) /\ ~result.handled

C1_Witness ==
    /\ Called /\ prompted /\ allow_shutdown
    /\ Cmd = K_confirm
    /\ ~OsAction(effects) /\ result.resp = MsgNotRecognized

\* C2: with allow_shutdown false, every utterance reaching the shutdown/restart
\* rule is handled with the fixed disabled message and no OS action, whether
\* or not it contains "confirm".
C2_DisabledInConfig ==
    (ReachesShutdownRule /\ ~allow_shutdown) =>
        /\ result.handled
        /\ response = MsgDisabled
        /\ ~OsAction(effects)

C2_Witness ==
    /\ ReachesShutdownRule /\ ~allow_shutdown
    /\ Cmd = K_confirm \o SP \o K_shutdown
    /\ response = MsgDisabled /\ effects = <<>>

Remainder(c, p) == SubSeq(c, Len(p) + 1, Len(c))

\* C4: every "open <key>" is handled; the app key is the exact remainder after
\* the "open " prefix; a key in the Command Table is launched and answered
\* "Opening <key>.", a key not in it launches nothing and is answered
\* "App <key> not found in config.".
C4_OpenExactRemainder ==
    (Called /\ StartsWith(Cmd, K_open)) =>
        LET key == Remainder(Cmd, K_open) IN
        /\ result.handled
        /\ IF key \in apps
           THEN response = MsgOpening(key) /\ effects = <<Act("Popen", key)>>
           ELSE response = MsgNotFound(key) /\ effects = <<>>

\* C5: every text beginning with "search " is handled and answered
\* "Searching the web for <remainder>." with the exact trailing substring, also
\* when the remainder itself contains "search ".
C5_SearchExactRemainder ==
    (Called /\ ~StartsWith(Cmd, K_open) /\ StartsWith(Cmd, K_search)) =>
        /\ result.handled
        /\ response = MsgSearching(Remainder(Cmd, K_search))

\* C6: the rules are tried in the order open, search, volume, brightness,
\* shutdown/restart, play music, crux-write; the result is that of the first
\* rule in this order that matches and handles the text, and no later rule's
\* action or response is produced.
C6_FirstMatchWins ==
    (Called /\ ~raised) =>
        IF StartsWith(Cmd, K_open)
        THEN /\ result.handled
             /\ Head(response) \in {"Opening ", "App "}
             /\ OnlyActs(effects, {"Popen"})
        ELSE IF StartsWith(Cmd, K_search)
        THEN /\ result.handled
             /\ Head(response) = "Searching the web for "
             /\ OnlyActs(effects, {"webbrowser.open"}) /\ Len(effects) = 1
        ELSE IF Contains(Cmd, K_volume) /\ AudioUtilities
                /\ (Contains(Cmd, K_up) \/ Contains(Cmd, K_down))
        THEN /\ result.handled
             /\ response = (IF Contains(Cmd, K_up) THEN MsgVolumeUp ELSE MsgVolumeDown)
             /\ OnlyActs(effects, {"volume+", "volume-"}) /\ Len(effects) = 1
        ELSE IF Contains(Cmd, K_brightness) /\ sbc
                /\ (Contains(Cmd, K_up) \/ Contains(Cmd, K_down))
        THEN /\ result.handled
             /\ response \in {MsgBrightError,
                              IF Contains(Cmd, K_up) THEN MsgBrightUp ELSE MsgBrightDown}
             /\ OnlyActs(effects, {"brightness+", "brightness-"})
        ELSE IF NamesAction(Cmd)
        THEN /\ result.handled
             /\ response \in {MsgDisabled, MsgConfirmPrompt, MsgShuttingDown, MsgRestarting}
             /\ OnlyActs(effects, {"os.system"})
        ELSE IF Contains(Cmd, K_play_music)
        THEN /\ result.handled
             /\ response \in {MsgPlaying, MsgNoMusic}
             /\ OnlyActs(effects, {"os.startfile"})
        ELSE IF StartsWith(Cmd, K_crux_write) /\ Contains(Cmd, K_bubble_sort)
        THEN result.handled /\ response = MsgBubbleSortCode /\ effects = <<>>
        ELSE ~result.handled /\ response = MsgNotRecognized /\ effects = <<>>

C6_Witness ==
    /\ Called /\ allow_shutdown
    /\ Cmd = K_open \o K_confirm \o K_shutdown
    /\ response = MsgNotFound(K_confirm \o K_shutdown) /\ effects = <<>>

----------------------------------------------------------------------------
(* Properties of the Assistant, checked under SpecAssistant *)

\* on_stt_result has completed; Spoken is the utterance trimmed and lower-cased.
Heard_done == pc = "done" /\ entry = "spoken"
Spoken == Strip(Lower(text))
Wake == Lower(wake_word)

GptCalled(effs) == \E i \in DOMAIN effs : effs[i].act = "query_gpt"

\* C7 as stated: an utterance that is only the wake word produces no event of
\* any type, no response, no speech and no audit-log line.
C7_WakeWordOnlyNoEvents ==
    (Heard_done /\ Spoken = Wake) =>
        /\ events = <<>>
        /\ response = <<>>
        /\ effects = <<>>
        /\ audit = <<>>

\* C7 amended: an utterance that is only the wake word produces exactly one
\* event, the log event "Heard wake word: <wake word>", and no status or
\* transcript event, no response, no speech and no audit-log line.
C7_WakeWordOnlyLogEventOnly ==
    (Heard_done /\ Spoken = Wake) =>
        /\ events = <<LogEvent(MsgHeardWake(Wake))>>
        /\ user_text_calls = <<>> /\ command_calls = <<>>
        /\ response = <<>>
        /\ effects = <<>>
        /\ audit = <<>>

C7_Witness ==
    /\ Heard_done /\ jsonl_path
    /\ text = U_Crux_sp
    /\ events = <<LogEvent(MsgHeardWake(K_crux))>>
    /\ audit = <<>>

\* C8: a non-empty spoken text without the wake word is never discarded: its
\* trimmed, lower-cased form is passed unchanged to handle_user_text exactly
\* once; stripping that text again changes nothing.
C8_NoWakeWordPassesUnchanged ==
    (Heard_done /\ text # <<>> /\ ~Contains(Spoken, Wake)) =>
        /\ user_text_calls = <<Spoken>>
        /\ events # <<>> /\ Head(events) = TranscriptEvent("user", Spoken)
        /\ LET passed == user_text_calls[1] IN
           /\ Strip(Lower(passed)) = passed
           /\ ~Contains(passed, Wake)

C8_Witness ==
    /\ Heard_done
    /\ text = SP \o U_Hello \o SP
    /\ user_text_calls = <<Lower(U_Hello)>>

\* Removal of the first occurrence only, as str.replace(old, "", 1) does it.
RECURSIVE Replace_first(_, _)
Replace_first(s, old) ==
    IF old = <<>> \/ Len(s) < Len(old) THEN s
    ELSE IF StartsWith(s, old) THEN SubSeq(s, Len(old) + 1, Len(s))
    ELSE <<Head(s)>> \o Replace_first(Tail(s), old)

\* C9: when the utterance contains the wake word, only its first occurrence is
\* removed and the rest is trimmed; further occurrences stay in the text that
\* is routed ("crux crux open" is routed as "crux open").
C9_FirstOccurrenceOnly ==
    (Heard_done /\ Contains(Spoken, Wake)
                /\ Strip(Replace_first(Spoken, Wake)) # <<>>) =>
        user_text_calls = <<Strip(Replace_first(Spoken, Wake))>>

\* C10: for a text no built-in rule handles, with the language-model
\* integration disabled (not enabled in the configuration, or no credential),
\* route_command returns exactly the fixed "I don't understand" string and
\* makes no language-model call.
C10_DisabledGptFallback ==
    (pc = "done" /\ command_calls # <<>> /\ ~raised /\ ~result.handled
        /\ ~(gpt_cfg.enabled /\ gpt_cfg.api_key)) =>
        /\ response = MsgDontUnderstand
        /\ ~GptCalled(effects)

C10_Witness ==
    /\ pc = "done" /\ entry = "typed"
    /\ gpt_cfg.enabled /\ ~gpt_cfg.api_key
    /\ text = U_Hello
    /\ ~result.handled
    /\ response = MsgDontUnderstand /\ ~GptCalled(effects)

Last(q) == q[Len(q)]
Transcripts(ev) == SelectSeq(ev, LAMBDA e : e.type = "transcript")
JsonlFailures(w) == Len(SelectSeq(w, LAMBDA m : m = MsgJsonlFailed))
Line(role, t) == [role |-> role, text |-> t]

\* C11: when the language-model fallback is reached and the hosted call
\* raises, route_command returns the fixed apology and no exception leaves
\* the call; the apology is spoken, emitted as the assistant's transcript and
\* written to the audit log as any response is (one line if a path is
\* configured, or a warning if the append fails).
C11_GptFailureApology ==
    (pc = "done" /\ gpt_outcome = "error") =>
        /\ ~raised
        /\ response = MsgGptApology
        /\ Last(effects) = Act("say", MsgGptApology)
        /\ Last(events) = TranscriptEvent("assistant", MsgGptApology)
        /\ MsgGptFailed \in {warnings[i] : i \in DOMAIN warnings}
        /\ jsonl_path =>
               IF Last(warnings) = MsgJsonlFailed
               THEN \A i \in DOMAIN audit : audit[i].role # "assistant"
               ELSE audit # <<>> /\ Last(audit) = Line("assistant", MsgGptApology)

C11_Witness ==
    /\ pc = "done" /\ gpt_outcome = "error" /\ entry = "spoken"
    /\ audit = <<Line("user", user_text_calls[1]), Line("assistant", MsgGptApology)>>

\* What handle_user_text is to emit and to append for the text it was given.
ExpectedTranscripts ==
    <<TranscriptEvent("user", user_text_calls[1])>>
        \o (IF response # <<>> THEN <<TranscriptEvent("assistant", response)>> ELSE <<>>)
ExpectedAudit ==
    <<Line("user", user_text_calls[1])>>
        \o (IF response # <<>> THEN <<Line("assistant", response)>> ELSE <<>>)

\* C12 as stated: with an audit path configured, every call of
\* handle_user_text emits exactly one user transcript and appends exactly one
\* user line, and then, iff the response is not empty, exactly one assistant
\* transcript and one assistant line, in that order.
C12_OneTranscriptOneLineEach ==
    (pc = "done" /\ user_text_calls # <<>> /\ jsonl_path) =>
        /\ Transcripts(events) = ExpectedTranscripts
        /\ audit = ExpectedAudit

\* C12, amended: the transcripts are as stated; each audit line is appended
\* unless its append fails, in which case a warning is logged and the line is
\* dropped, the other line being unaffected.
C12_OneTranscriptOneLineUnlessAppendFails ==
    (pc = "done" /\ user_text_calls # <<>> /\ jsonl_path) =>
        /\ Transcripts(events) = ExpectedTranscripts
        /\ Len(audit) + JsonlFailures(warnings) = Len(ExpectedAudit)
        /\ \/ audit = ExpectedAudit
           \/ \E i \in DOMAIN ExpectedAudit : audit = <<ExpectedAudit[i]>>
           \/ audit = <<>>

C12_Witness ==
    /\ pc = "done" /\ entry = "spoken" /\ jsonl_path
    /\ text = K_crux_sp \o K_open \o K_notepad
    /\ Transcripts(events) = <<TranscriptEvent("user", K_open \o K_notepad),
                               TranscriptEvent("assistant", MsgOpening(K_notepad))>>
    /\ audit = <<Line("user", K_open \o K_notepad),
                 Line("assistant", MsgOpening(K_notepad))>>

----------------------------------------------------------------------------
(* Threads: the steps of start_listening, stop_listening, shutdown, of the  *)
(* listening loop and of say                                                *)

Goto(t, p) == at' = [at EXCEPT ![t] = p]

\* Where a thread is once say, or the callback, has returned.
Back(t) == IF t \in Callers THEN "idle" ELSE "check"

\* The calling thread is out of the Assistant's method.
Leave(t) == op' = IF t \in Callers THEN [op EXCEPT ![t] = "none"] ELSE op

CanCall(c) == at[c] = "idle" /\ ops < MaxOps

Enter(c, m) ==
    /\ op' = [op EXCEPT ![c] = m]
    /\ ops' = ops + 1

\* Assistant.start_listening: with self.lock
CallStartListening(c) ==
    /\ CanCall(c)
    /\ spawned + Cardinality({d \in Callers : op[d] = "start"}) < MaxThreads
    /\ lock = None
    /\ lock' = c
    /\ Goto(c, "start_flag")
    /\ Enter(c, "start")
    /\ UNCHANGED <<listening, running, thread, spawned, tts_vars, say_vars, call_vars>>

\* if self.listening: return; self.listening = True; the lock is released
StartFlag(c) ==
    /\ at[c] = "start_flag"
    /\ lock' = None
    /\ IF listening
       THEN Goto(c, "idle") /\ Leave(c) /\ UNCHANGED listening
       ELSE Goto(c, "stt_start") /\ listening' = TRUE /\ UNCHANGED op
    /\ UNCHANGED <<running, thread, spawned, ops, tts_vars, say_vars, call_vars>>

\* SpeechEngine.start_listening: if self.running: return
SttStart(c) ==
    /\ at[c] = "stt_start"
    /\ IF running
       THEN Goto(c, "idle") /\ Leave(c)
       ELSE Goto(c, "stt_set") /\ UNCHANGED op
    /\ UNCHANGED <<stt_vars, ops, tts_vars, say_vars, call_vars>>

\* self.running = True
SttSet(c) ==
    /\ at[c] = "stt_set"
    /\ running' = TRUE
    /\ Goto(c, "stt_spawn")
    /\ UNCHANGED <<listening, lock, thread, spawned, op, ops, tts_vars, say_vars,
                   call_vars>>

\* self.thread = threading.Thread(target=self._listen_loop); self.thread.start()
SttSpawn(c) ==
    /\ at[c] = "stt_spawn"
    /\ spawned < MaxThreads
    /\ thread' = Loop(spawned + 1)
    /\ spawned' = spawned + 1
    /\ at' = [at EXCEPT ![c] = "idle", ![Loop(spawned + 1)] = "open_mic"]
    /\ Leave(c)
    /\ UNCHANGED <<listening, lock, running, ops, tts_vars, say_vars, call_vars>>

\* Assistant.stop_listening: with self.lock
CallStopListening(c) ==
    /\ CanCall(c)
    /\ lock = None
    /\ lock' = c
    /\ Goto(c, "stop_flag")
    /\ Enter(c, "stop")
    /\ UNCHANGED <<listening, running, thread, spawned, tts_vars, say_vars, call_vars>>

\* Assistant.shutdown: self.stop_listening() first
CallShutdown(c) ==
    /\ CanCall(c)
    /\ lock = None
    /\ lock' = c
    /\ Goto(c, "stop_flag")
    /\ Enter(c, "shutdown")
    /\ UNCHANGED <<listening, running, thread, spawned, tts_vars, say_vars, call_vars>>

\* if not self.listening: return; self.listening = False; the lock is released
StopFlag(c) ==
    /\ at[c] = "stop_flag"
    /\ lock' = None
    /\ IF listening
       THEN Goto(c, "stt_stop") /\ listening' = FALSE /\ UNCHANGED op
       ELSE /\ UNCHANGED listening
            /\ IF op[c] = "shutdown"
               THEN Goto(c, "sd_stop") /\ UNCHANGED op
               ELSE Goto(c, "idle") /\ Leave(c)
    /\ UNCHANGED <<running, thread, spawned, ops, tts_vars, say_vars, call_vars>>

\* SpeechEngine.stop_listening leaving the flag as it is.
SttStop_noclear(c) ==
    /\ at[c] \in {"stt_stop", "sd_stop"}
    /\ Goto(c, IF at[c] = "stt_stop" THEN "stt_join" ELSE "sd_join")
    /\ UNCHANGED <<stt_vars, op, ops, tts_vars, say_vars, call_vars>>

\* SpeechEngine.stop_listening: self.running = False
SttStop(c) ==
    /\ at[c] \in {"stt_stop", "sd_stop"}
    /\ running' = FALSE
    /\ Goto(c, IF at[c] = "stt_stop" THEN "stt_join" ELSE "sd_join")
    /\ UNCHANGED <<listening, lock, thread, spawned, op, ops, tts_vars, say_vars,
                   call_vars>>

\* if self.thread: self.thread.join(timeout=1.0): the join returns when the
\* thread has ended, or after a second if it has not.
SttJoin(c) ==
    /\ at[c] \in {"stt_join", "sd_join"}
    /\ IF at[c] = "sd_join" THEN Goto(c, "sd_tts") /\ UNCHANGED op
       ELSE IF op[c] = "shutdown" THEN Goto(c, "sd_stop") /\ UNCHANGED op
       ELSE Goto(c, "idle") /\ Leave(c)
    /\ UNCHANGED <<stt_vars, ops, tts_vars, say_vars, call_vars>>

\* TTSEngine.shutdown: if self.engine: with self._engine_lock
TtsShutdown(c) ==
    /\ at[c] = "sd_tts"
    /\ IF engine
       THEN engine_lock = None /\ engine_lock' = c /\ Goto(c, "sd_engine")
       ELSE Goto(c, "halted") /\ UNCHANGED engine_lock
    /\ UNCHANGED <<stt_vars, op, ops, mode, engine, tts_host, play_lock, players,
                   cache, hosted, say_vars, call_vars>>

\* self.engine.stop(); the lock is released
EngineStop(c) ==
    /\ at[c] = "sd_engine"
    /\ engine_lock' = None
    /\ Goto(c, "halted")
    /\ UNCHANGED <<stt_vars, op, ops, mode, engine, tts_host, play_lock, players,
                   cache, hosted, say_vars, call_vars>>

\* _listen_loop: with sr.Microphone(...) as source: adjust_for_ambient_noise;
\* either may raise, outside every try.
OpenMicrophone(t) ==
    /\ at[t] = "open_mic"
    /\ \E ok \in BOOLEAN : Goto(t, IF ok THEN "check" ELSE "crashed")
    /\ UNCHANGED <<stt_vars, op, ops, tts_vars, say_vars, call_vars>>

\* while self.running
LoopTest(t) ==
    /\ at[t] = "check"
    /\ Goto(t, IF running THEN "listen" ELSE "exited")
    /\ UNCHANGED <<stt_vars, op, ops, tts_vars, say_vars, call_vars>>

\* audio = self.recognizer.listen(source, timeout=3, phrase_time_limit=8);
\* WaitTimeoutError and any other exception: continue
Listen(t) ==
    /\ at[t] = "listen"
    /\ \E r \in {"audio", "timeout", "error"} :
           Goto(t, IF r = "audio" THEN "recognize" ELSE "check")
    /\ UNCHANGED <<stt_vars, op, ops, tts_vars, say_vars, call_vars>>

\* text = self.recognize(audio); if text: self.callback(text)
Recognize(t) ==
    /\ at[t] = "recognize"
    /\ \E r \in {"text", "empty", "error"} :
           Goto(t, IF r = "text" THEN "callback" ELSE "check")
    /\ UNCHANGED <<stt_vars, op, ops, tts_vars, say_vars, call_vars>>

\* The thread has finished its say.
SayDone(t, fb) ==
    /\ Goto(t, Back(t))
    /\ Leave(t)
    /\ engine_lock' = IF engine_lock = t THEN None ELSE engine_lock
    /\ fell_back' = fb
    /\ saying' = [saying EXCEPT ![t] = <<>>]
    /\ attempts' = [attempts EXCEPT ![t] = 0]
    /\ after_fallback' = [after_fallback EXCEPT ![t] = FALSE]

\* A step inside say that goes on to p.
SayStep(t, p, n) ==
    /\ Goto(t, p)
    /\ attempts' = [attempts EXCEPT ![t] = n]
    /\ UNCHANGED <<op, engine_lock, fell_back, saying, after_fallback>>

\* TTSEngine.say(text)
say(t, txt) ==
    IF txt = <<>>
    THEN /\ Goto(t, Back(t))
         /\ Leave(t)
         /\ fell_back' = FALSE
         /\ UNCHANGED <<saying, attempts, after_fallback>>
    ELSE /\ Goto(t, IF mode = "offline" /\ engine THEN "off_lock" ELSE "on_check")
         /\ saying' = [saying EXCEPT ![t] = txt]
         /\ after_fallback' = [after_fallback EXCEPT ![t] = fell_back]
         /\ UNCHANGED <<op, fell_back, attempts>>

\* A thread calls tts_engine.say(text).
CallSay(c) ==
    /\ CanCall(c)
    /\ ops' = ops + 1
    /\ \E txt \in SayTexts : say(c, txt)
    /\ UNCHANGED <<stt_vars, tts_vars, call_vars>>

\* The window's thread hands typed text to handle_user_text, which ends
\* without a reply or hands its reply to tts_engine.say.
TypedText(c) ==
    /\ CanCall(c)
    /\ ops' = ops + 1
    /\ \/ UNCHANGED <<at, op, say_vars>>
       \/ say(c, MsgDontUnderstand)
    /\ UNCHANGED <<stt_vars, tts_vars, call_vars>>

\* self.callback(text): on_stt_result, which returns without a reply or hands
\* its reply to tts_engine.say.
Callback(t) ==
    /\ at[t] = "callback"
    /\ \/ Goto(t, "check") /\ UNCHANGED <<op, say_vars>>
       \/ say(t, MsgDontUnderstand)
    /\ UNCHANGED <<stt_vars, ops, tts_vars, call_vars>>

\* _say_offline: with self._engine_lock
OffLock(t) ==
    /\ at[t] = "off_lock"
    /\ engine_lock = None
    /\ engine_lock' = t
    /\ Goto(t, "off_say")
    /\ UNCHANGED <<stt_vars, op, ops, mode, engine, tts_host, play_lock, players,
                   cache, hosted, say_vars, call_vars>>

\* self.engine.say(text); self.engine.runAndWait()
OffSay(t) ==
    /\ at[t] = "off_say"
    /\ \E r \in {"ok", "RuntimeError", "Exception"} :
           CASE r = "ok" -> SayDone(t, FALSE)
             [] r = "RuntimeError" -> SayStep(t, "off_retry", 1)
             [] r = "Exception" -> SayStep(t, "on_check", 1)
    /\ UNCHANGED <<stt_vars, ops, mode, engine, tts_host, play_lock, players, cache,
                   hosted, call_vars>>

\* The handler of RuntimeError re-initializing and retrying again on failure.
OffRetry_again(t) ==
    /\ at[t] = "off_retry"
    /\ engine' = TRUE
    /\ \E ok \in BOOLEAN :
           IF ok THEN SayDone(t, FALSE)
           ELSE SayStep(t, IF attempts[t] < 2 THEN "off_retry" ELSE "on_check",
                        attempts[t] + 1)
    /\ UNCHANGED <<stt_vars, ops, mode, tts_host, play_lock, players, cache, hosted,
                   call_vars>>

\* except RuntimeError: self.engine = pyttsx3.init(); ...; self.engine.say(text),
\* and on any exception of these _say_online
OffRetry(t) ==
    /\ at[t] = "off_retry"
    /\ engine' = TRUE
    /\ \E ok \in BOOLEAN :
           IF ok THEN SayDone(t, FALSE) ELSE SayStep(t, "on_check", 2)
    /\ UNCHANGED <<stt_vars, ops, mode, tts_host, play_lock, players, cache, hosted,
                   call_vars>>

\* _say_online: if not os.path.exists(mp3_path)
OnCheck(t) ==
    /\ at[t] = "on_check"
    /\ SayStep(t, IF Key(saying[t]) \in cache THEN "on_play" ELSE "on_synth",
               attempts[t])
    /\ UNCHANGED <<stt_vars, ops, mode, engine, tts_host, play_lock, players, cache,
                   hosted, call_vars>>

\* gTTS(text=text, lang=lang_code).save(mp3_path), or the error is logged and
\* the call returns
OnSynth(t) ==
    /\ at[t] = "on_synth"
    /\ \E ok \in BOOLEAN :
           IF ok
           THEN /\ cache' = cache \cup {Key(saying[t])}
                /\ hosted' = Append(hosted, Key(saying[t]))
                /\ SayStep(t, "on_play", attempts[t])
           ELSE /\ SayDone(t, FALSE)
                /\ UNCHANGED <<cache, hosted>>
    /\ UNCHANGED <<stt_vars, ops, mode, engine, tts_host, play_lock, players,
                   call_vars>>

\* _say_online playing in the calling thread.
OnPlay_inline(t) ==
    /\ at[t] = "on_play"
    /\ play_lock = None
    /\ play_lock' = t
    /\ Goto(t, "playing")
    /\ UNCHANGED <<stt_vars, op, ops, mode, engine, tts_host, engine_lock, players,
                   cache, hosted, say_vars, call_vars>>

\* th = threading.Thread(target=_play, daemon=True); th.start()
OnPlay(t) ==
    /\ at[t] = "on_play"
    /\ players < MaxPlayers
    /\ players' = players + 1
    /\ SayDone(t, attempts[t] = 2)
    /\ UNCHANGED <<stt_vars, ops, mode, engine, tts_host, play_lock, cache, hosted,
                   call_vars>>

\* _play: with self._play_lock
PlayerAcquire ==
    /\ players > 0
    /\ play_lock = None
    /\ play_lock' = Player
    /\ players' = players - 1
    /\ UNCHANGED <<stt_vars, at, op, ops, mode, engine, tts_host, engine_lock, cache,
                   hosted, say_vars, call_vars>>

\* playsound(mp3_path) is over, or raised; the lock is released
PlayerDone ==
    /\ play_lock = Player
    /\ play_lock' = None
    /\ UNCHANGED <<stt_vars, at, op, ops, mode, engine, tts_host, engine_lock, players,
                   cache, hosted, say_vars, call_vars>>

InitQuiet ==
    /\ allow_shutdown = FALSE
    /\ AudioUtilities = FALSE
    /\ sbc = FALSE
    /\ gpt_cfg = [enabled |-> FALSE, api_key |-> FALSE]
    /\ gpt_enabled = Assistant_init(gpt_cfg)
    /\ jsonl_path = FALSE
    /\ InitCall

\* A TTSEngine after construction, on any host.
InitTtsEngine ==
    /\ InitQuiet
    /\ InitStt
    /\ InitThreads
    /\ \E h \in TtsHosts : InitTts(h)

\* An Assistant with its engines after construction, where pyttsx3 is
\* installed and starts.
InitThreaded ==
    /\ InitQuiet
    /\ InitStt
    /\ InitThreads
    /\ \E h \in {g \in TtsHosts : g.pyttsx3 /\ g.init_ok} : InitTts(h)

Speak(t) ==
    \/ OffLock(t) \/ OffSay(t) \/ OffRetry(t) \/ OnCheck(t) \/ OnSynth(t) \/ OnPlay(t)

\* say called from two threads.
NextTts ==
    \/ \E c \in Callers : CallSay(c)
    \/ \E t \in Callers : Speak(t)
    \/ PlayerAcquire
    \/ PlayerDone

\* The Assistant driven from two threads, with its listening threads.
NextThreads ==
    \/ \E c \in Callers :
          \/ CallStartListening(c) \/ StartFlag(c) \/ SttStart(c) \/ SttSet(c)
          \/ SttSpawn(c) \/ CallStopListening(c) \/ CallShutdown(c) \/ StopFlag(c)
          \/ SttStop(c) \/ SttJoin(c) \/ TtsShutdown(c) \/ EngineStop(c)
          \/ TypedText(c)
    \/ \E t \in Loops :
          \/ OpenMicrophone(t) \/ LoopTest(t) \/ Listen(t) \/ Recognize(t)
          \/ Callback(t)
    \/ \E t \in Threads : Speak(t)
    \/ PlayerAcquire
    \/ PlayerDone

SpecTts == InitTtsEngine /\ [][NextTts]_vars
SpecThreads == InitThreaded /\ [][NextThreads]_vars

\* What a listening thread does by itself.
LoopStep(t) ==
    \/ OpenMicrophone(t) \/ LoopTest(t) \/ Listen(t) \/ Recognize(t) \/ Callback(t)
    \/ Speak(t)

\* What a calling thread does once it is inside start_listening or
\* stop_listening.
ToggleStep(c) ==
    \/ StartFlag(c) \/ SttStart(c) \/ SttSet(c) \/ SttSpawn(c) \/ StopFlag(c)
    \/ SttStop(c) \/ SttJoin(c)

\* The listening switched on and off from the window's thread, as
\* on_gui_mic_toggle does.
NextListening ==
    \/ CallStartListening(Gui) \/ CallStopListening(Gui) \/ ToggleStep(Gui)
    \/ \E t \in Loops : LoopStep(t)
    \/ PlayerAcquire
    \/ PlayerDone

SpecListening == InitThreaded /\ [][NextListening]_vars

\* Every thread that can take a step is scheduled in the end, and every
\* blocking call returns: the join after its timeout, recognizer.listen after
\* its timeout or phrase limit, the playback at the end of the sound.  When a
\* method is called is left to the callers.
FairListening ==
    /\ SpecListening
    /\ \A t \in Loops : WF_vars(LoopStep(t))
    /\ WF_vars(ToggleStep(Gui))
    /\ WF_vars(PlayerAcquire)
    /\ WF_vars(PlayerDone)

----------------------------------------------------------------------------
(* Properties of the listening threads, checked under SpecThreads *)

\* The thread is in _listen_loop.
Active(t) == at[t] \notin {"unborn", "exited", "crashed"}

OfflinePcs == {"off_lock", "off_say", "off_retry"}
OnlinePcs  == {"on_check", "on_synth", "on_play"}

\* The thread is inside self.callback(text).
InCallback(t) == at[t] \in {"callback"} \cup OfflinePcs \cup OnlinePcs

\* C13: under any interleaving of start_listening and stop_listening calls,
\* a stop whose join timed out followed by a new start included, at most one
\* listening thread is active.
C13_AtMostOneLoop ==
    Cardinality({t \in Loops : Active(t)}) <= 1

\* C14: the handling of spoken utterances is sequential: no two executions
\* of the callback overlap.
C14_CallbacksDoNotOverlap ==
    \A t \in Loops, u \in Loops : (t # u /\ InCallback(t)) => ~InCallback(u)

\* C19: while SpeechEngine.running is set the listening loop stays alive: no
\* microphone timeout, unavailable microphone or hardware error terminates
\* the thread.
C19_ErrorsDoNotEndLoop ==
    \A t \in Loops : (running /\ thread = t) => at[t] # "crashed"

Holder(l) ==
    CASE l = "lock" -> lock
      [] l = "_engine_lock" -> engine_lock
      [] l = "_play_lock" -> play_lock

Held(t) == {l \in {"lock", "_engine_lock", "_play_lock"} : Holder(l) = t}

\* C20: in every interleaving of start_listening, stop_listening, say
\* (offline, online and the fallback from one to the other) and shutdown, no
\* thread holds two of Assistant.lock, _engine_lock and _play_lock at once.
C20_OneLockPerThread ==
    \A t \in Threads \cup {Player} : Cardinality(Held(t)) <= 1

C20_Witness ==
    /\ lock # None
    /\ play_lock = Player
    /\ \E t \in Threads : engine_lock = t /\ at[t] = "on_play" /\ lock # t

----------------------------------------------------------------------------
(* Properties of TTSEngine, checked under SpecTts *)

\* C15: after a say whose offline attempt failed, retry included, and which
\* spoke through the online path, the next say does not attempt the offline
\* path.
C15_NoOfflineAfterFallback ==
    \A t \in Threads : after_fallback[t] => at[t] \notin OfflinePcs

\* C16: the mode is the configured one, or "online" if pyttsx3 is missing or
\* fails to start at construction; it never goes from "online" to "offline";
\* and a say entered in "online" mode takes the online path.
C16_ModeNeverBackToOffline ==
    /\ mode = IF tts_host.mode = "offline" /\ ~(tts_host.pyttsx3 /\ tts_host.init_ok)
              THEN "online" ELSE tts_host.mode
    /\ [][mode = "online" => mode' = "online"]_vars
    /\ [](\A t \in Threads : at[t] \in OfflinePcs => mode = "offline")

C16_Witness ==
    /\ tts_host.mode = "offline"
    /\ mode = "online"
    /\ \E t \in Threads : at[t] = "on_play"

\* C17: in "online" mode two say calls with the same text and language code,
\* one after the other or overlapping, synthesize the hosted audio at most
\* once.
C17_SynthesizedAtMostOnce ==
    mode = "online" =>
        \A i \in DOMAIN hosted, j \in DOMAIN hosted : hosted[i] = hosted[j] => i = j

\* C18: say(text) does nothing for an empty text and for a blank one: no
\* thread gets to the engine, to the synthesis or to the playback with it.
C18_BlankTextIsNoOp ==
    \A t \in Threads :
        at[t] \in OfflinePcs \cup OnlinePcs => Strip(saying[t]) # <<>>

\* The thread's say returns in this step.
Returns(t) == at[t] \in OfflinePcs \cup OnlinePcs /\ at'[t] = Back(t)

\* The thread starts a playback thread in this step.
Plays(t) == at[t] = "on_play" /\ at'[t] # "on_play" /\ players' = players + 1

----------------------------------------------------------------------------
(* The code-writing rule, checked under SpecAssistant *)

\* No rule before the code-writing rule returns for the text.
NoEarlierRule(c) ==
    /\ ~OpenRule(c, Cfg).matched
    /\ ~SearchRule(c).matched
    /\ ~VolumeRule(c, QuietHost).matched
    /\ ~BrightnessRule(c, QuietHost).matched
    /\ ~ShutdownRule(c, Cfg).matched
    /\ ~MusicRule(c, QuietHost).matched

\* The utterance begins with "crux write" and names the bubble sort.
AsksBubbleSort(c) ==
    StartsWith(c, K_crux_write) /\ Contains(c, K_bubble_sort) /\ NoEarlierRule(c)

\* C23: an utterance that begins with "crux write", contains "bubble sort"
\* and matches no earlier rule is answered with the bubble-sort snippet,
\* handled, when it is typed and when it is spoken and comes through
\* on_stt_result with the wake word "crux".
C23_CruxWriteBubbleSort ==
    (pc = "done" /\ entry \in {"typed", "spoken"} /\ AsksBubbleSort(Strip(Lower(text)))) =>
        /\ result.handled
        /\ response = MsgBubbleSortCode

\* The typed half of C23, which holds.
C23_TypedCruxWriteBubbleSort ==
    (pc = "done" /\ entry = "typed" /\ AsksBubbleSort(Strip(Lower(text)))) =>
        /\ result.handled
        /\ response = MsgBubbleSortCode

----------------------------------------------------------------------------
(* Start and stop of the listening, checked under SpecThreads, and under  *)
(* FairListening for what has to happen in the end                         *)

\* Where a thread is inside start_listening or stop_listening, of the
\* Assistant or of the SpeechEngine (shutdown calls both).
TogglePcs == {"start_flag", "stt_start", "stt_set", "stt_spawn",
              "stop_flag", "stt_stop", "stt_join", "sd_stop", "sd_join"}

\* No start_listening or stop_listening call is in progress.
NoToggle == \A c \in Callers : at[c] \notin TogglePcs

\* C24: whenever no start_listening or stop_listening call is in progress,
\* Assistant.listening equals SpeechEngine.running, in every interleaving of
\* concurrent calls.
C24_ListeningEqualsRunning ==
    NoToggle => (listening = running)

\* The calls of stop_listening have returned and no start_listening has been
\* entered since: the flag is as the last stop left it.
Stopped == NoToggle /\ ~listening /\ spawned > 0

\* C25: after stop_listening has returned and before a later
\* start_listening, no listening thread calls the callback.
C25_NoDispatchAfterStop ==
    [][\A t \in Loops : (Stopped /\ at[t] = "recognize") => at'[t] # "callback"]_vars

StartPending == \E c \in Callers : at[c] \in {"start_flag", "stt_start", "stt_set", "stt_spawn"}
AllEnded == \A t \in Loops : ~Active(t)

\* C22: SpeechEngine.stop_listening clears running and returns, whether the
\* listening thread has ended within the join's second or not; and with the
\* flag cleared and no start_listening under way, the listening threads end,
\* unless a start_listening comes first.
C22_StopReturnsLoopExits ==
    /\ [][\A c \in Callers :
             (at[c] \in {"stt_stop", "sd_stop"} /\ at'[c] # at[c]) => ~running']_vars
    /\ \A c \in Callers :
          (at[c] \in {"stt_stop", "stt_join"}) ~> (at[c] \notin {"stt_stop", "stt_join"})
    /\ (~running /\ ~StartPending) ~> (AllEnded \/ StartPending)

\* stop_listening has returned while a listening thread is still waiting for
\* speech.
C22_Witness ==
    /\ Stopped
    /\ ~running
    /\ \E t \in Loops : at[t] = "listen"
    /\ \E c \in Callers : op[c] = "none" /\ at[c] = "idle"

====
